---- MODULE Spec2Model ----
(***************************************************************************)
(* Model of the Bedrock Converse Stream page                               *)
(* (src/views/boto_converse_stream_cache.py): the conversation Store in    *)
(* st.session_state.messages, the sidebar configuration, the request       *)
(* projection, the stream consumer loop and the telemetry captions.        *)
(*                                                                         *)
(* Python strings are sequences of one-character strings; the characters   *)
(* "U+00A0" (no-break space) and "U+00E9" (e acute) stand for non-ASCII    *)
(* code points.  Python dicts are functions on a set of string keys.       *)
(***************************************************************************)
EXTENDS Integers, Sequences, FiniteSets, TLC

(* ------------------------------ bounds --------------------------------- *)
MaxNameLen == 4

(* ----------------------- Python string helpers ------------------------- *)
AsciiAlnum == {"a", "d", "e", "i", "f", "g", "h", "l", "m", "n", "o", "p", "r", "t", "u", "c",
               "H", "Y", "7"}

\* characters for which str.isspace() holds, which is what \s matches in a str pattern
Whitespace == {" ", "\t", "U+00A0"}

\* the literal characters of the class [\-\(\)\[\]]
Punct == {"-", "(", ")", "[", "]"}

NameAlphabet == {"a", "7", " ", "\t", "U+00A0", "-", "(", ".", "U+00E9"}

RECURSIVE StringsUpTo(_, _)
StringsUpTo(alphabet, n) ==
    IF n = 0 THEN {<< >>}
    ELSE LET shorter == StringsUpTo(alphabet, n - 1)
         IN  shorter \cup {Append(s, c) : s \in {t \in shorter : Len(t) = n - 1}, c \in alphabet}

\* re.sub(r'[^a-zA-Z0-9\s\-\(\)\[\]]', ' ', s)
SubDisallowed(s) ==
    [i \in 1..Len(s) |->
        IF s[i] \in AsciiAlnum \cup Whitespace \cup Punct THEN s[i] ELSE " "]

\* variant: only runs of the ASCII space are collapsed
RECURSIVE SubSpaceRuns(_)
SubSpaceRuns(s) ==
    IF s = << >> THEN << >>
    ELSE IF Head(s) = " "
         THEN IF Len(s) > 1 /\ s[2] = " "
              THEN SubSpaceRuns(Tail(s))
              ELSE <<" ">> \o SubSpaceRuns(Tail(s))
         ELSE <<Head(s)>> \o SubSpaceRuns(Tail(s))

\* re.sub(r'\s+', ' ', s): every maximal run of whitespace becomes one space
RECURSIVE SubWhitespaceRuns(_)
SubWhitespaceRuns(s) ==
    IF s = << >> THEN << >>
    ELSE IF Head(s) \in Whitespace
         THEN IF Len(s) > 1 /\ s[2] \in Whitespace
              THEN SubWhitespaceRuns(Tail(s))
              ELSE <<" ">> \o SubWhitespaceRuns(Tail(s))
         ELSE <<Head(s)>> \o SubWhitespaceRuns(Tail(s))

RECURSIVE LStrip(_)
LStrip(s) == IF s # << >> /\ Head(s) \in Whitespace THEN LStrip(Tail(s)) ELSE s

RECURSIVE RStrip(_)
RStrip(s) ==
    IF s # << >> /\ s[Len(s)] \in Whitespace THEN RStrip(SubSeq(s, 1, Len(s) - 1)) ELSE s

\* str.strip()
Strip(s) == LStrip(RStrip(s))

Placeholder == <<"d", "o", "c", "u", "m", "e", "n", "t">>

sanitize_filename(filename) ==
    LET name == Strip(SubWhitespaceRuns(SubDisallowed(filename)))
    IN  IF name # << >> THEN name ELSE Placeholder

(* ----------------------- Python value helpers -------------------------- *)
\* Python's None, for values that are otherwise records
PyNone == [py |-> "None"]

\* the empty dict {}
EmptyDict == [k \in {} |-> 0]

\* d.get(k, default)
Get(d, k, default) == IF k \in DOMAIN d THEN d[k] ELSE default

\* d[k] = v on a dict
Put(d, k, v) == [x \in DOMAIN d \cup {k} |-> IF x = k THEN v ELSE d[x]]

\* s.split('.')[-1]: the part after the last period, the whole string without one
RECURSIVE SplitLast(_)
SplitLast(s) ==
    IF \A i \in 1..Len(s) : s[i] # "." THEN s
    ELSE SplitLast(Tail(s))

(* ------------------------------- state --------------------------------- *)
VARIABLES
    messages,                \* st.session_state.messages, the conversation Store
    enable_system_cache,     \* sidebar checkbox "Cache System Prompt"
    enable_document_cache,   \* sidebar checkbox "Cache Documents"
    system_prompt,           \* sidebar text area
    uploaded_file,           \* sidebar file uploader: PyNone or a file
    pc,                      \* position of the script run: "idle", "try", "stream"
    full_response,           \* response buffer of the chat input handler
    metadata,                \* pending metadata record of the handler
    request,                 \* keyword arguments of the last converse_stream call
    events,                  \* events the stream loop has consumed in this run
    message_placeholder,     \* what the live message placeholder shows
    token_placeholder,       \* the caption of the live token placeholder
    error,                   \* which except branch ran in this run
    document_cache_at_submit,\* per Store index: enable_document_cache when it was submitted
    store_before,            \* the Store as this script run found it
    clear_clicked,           \* the Clear Conversation button fired in this run
    cleared_turns,           \* how many stored turns that click dropped
    san_pc,        \* sanitize_filename call: "in" (name chosen), "out" (sanitized), "off"
    san_in,        \* the filename handed to sanitize_filename
    san_out,       \* its result
    chat_messages,     \* chat page: st.session_state.messages
    generated_images,  \* chat page: st.session_state.generated_images
    chat_pc,           \* chat page script: "idle", "agent", "images"
    images_before,     \* chat page handler: len(generated_images) before the agent call
    image_index,       \* chat page handler: loop variable i of the new-image loop
    response_text,     \* chat page handler: str(response)
    tool_result,       \* chat page: what the last generate_image call returned
    chat_cleared       \* chat page: the Clear Chat button fired in this run

convVars == <<messages, enable_system_cache, enable_document_cache, system_prompt,
              uploaded_file, pc, full_response, metadata, request, events,
              message_placeholder, token_placeholder, error, document_cache_at_submit,
              store_before, clear_clicked, cleared_turns>>
sanVars == <<san_pc, san_in, san_out>>
chatVars == <<chat_messages, generated_images, chat_pc, images_before, image_index,
              response_text, tool_result, chat_cleared>>
vars == <<convVars, sanVars, chatVars>>

(* -------------------------- inputs and bounds -------------------------- *)
\* a submission is taken while the Store holds fewer turns than this; the sidebar
\* settings are changed only while a further submission can follow
MaxTurns == 3
\* twice the stored turns plus the events the running stream has delivered stays
\* within this: the first stream is the longest
MaxWork == 5

Prompts == {<<"h", "i">>}

\* values of the system prompt text area: empty, blank, and the default text abbreviated
SystemPrompts == {<< >>, <<" ">>, <<"Y", "o", "u">>}
DefaultSystemPrompt == <<"Y", "o", "u">>

ImageFile == [name |-> <<"p", ".", "P", "N", "G">>,
              type |-> [major |-> "image", minor |-> "png"],
              bytes |-> "image-bytes"]
DocumentFile == [name |-> <<"r", ".", "p", "d", "f">>,
                 type |-> [major |-> "application", minor |-> "pdf"],
                 bytes |-> "document-bytes"]
Files == {ImageFile, DocumentFile}

model_id == "global.anthropic.claude-sonnet-4-5-20250929-v1:0"
max_tokens == 4096
\* the temperature slider's default 0.1, in tenths
temperature == 1

(* --------------------------- attachment upload ------------------------- *)
\* str.lower() on the characters the file names use
Lower(s) ==
    [i \in 1..Len(s) |->
        CASE s[i] = "P" -> "p" [] s[i] = "N" -> "n" [] s[i] = "G" -> "g"
          [] s[i] = "H" -> "h" [] s[i] = "Y" -> "y" [] OTHER -> s[i]]

format_mapping ==
    (<<"j", "p", "g">> :> "jpeg") @@ (<<"j", "p", "e", "g">> :> "jpeg") @@
    (<<"p", "n", "g">> :> "png") @@ (<<"g", "i", "f">> :> "gif") @@
    (<<"w", "e", "b", "p">> :> "webp")

doc_format_mapping ==
    (<<"p", "d", "f">> :> "pdf") @@ (<<"c", "s", "v">> :> "csv") @@
    (<<"d", "o", "c">> :> "doc") @@ (<<"d", "o", "c", "x">> :> "docx") @@
    (<<"x", "l", "s">> :> "xls") @@ (<<"x", "l", "s", "x">> :> "xlsx") @@
    (<<"h", "t", "m", "l">> :> "html") @@ (<<"t", "x", "t">> :> "txt") @@
    (<<"m", "d">> :> "md")

\* file_data of the chat input handler: PyNone without an upload
FileData(file, document_cache) ==
    IF file = PyNone THEN PyNone
    ELSE LET file_extension == Lower(SplitLast(file.name))
         IN  IF file.type.major = "image"
             THEN [type |-> "image",
                   data |-> file.bytes,
                   format |-> Get(format_mapping, file_extension, "jpeg"),
                   original_name |-> file.name]
             ELSE [type |-> "document",
                   name |-> sanitize_filename(file.name),
                   original_name |-> file.name,
                   format |-> Get(doc_format_mapping, file_extension, "txt"),
                   content |-> file.bytes,
                   cached |-> document_cache]

\* user_message of the chat input handler
UserMessage(prompt, file_data) ==
    LET base == [role |-> "user", text |-> prompt]
    IN  IF file_data = PyNone THEN base
        ELSE IF file_data.type = "image"
        THEN Put(base, "image", [data |-> file_data.data,
                                 format |-> file_data.format,
                                 original_name |-> file_data.original_name])
        ELSE Put(base, "document", [name |-> file_data.name,
                                    original_name |-> file_data.original_name,
                                    format |-> file_data.format,
                                    content |-> file_data.content,
                                    cached |-> Get(file_data, "cached", FALSE)])

(* ---------------------------- request builder -------------------------- *)
CachePoint == [cachePoint |-> [type |-> "default"]]

\* variant: the marker follows the current checkbox, not the stored flag
Content_CurrentToggle(msg) ==
    (IF "image" \in DOMAIN msg
     THEN <<[image |-> [format |-> msg["image"].format,
                        source |-> [bytes |-> msg["image"].data]]]>>
     ELSE << >>)
    \o
    (IF "document" \in DOMAIN msg
     THEN <<[document |-> [format |-> msg["document"].format,
                           name |-> msg["document"].name,
                           source |-> [bytes |-> msg["document"].content]]]>>
          \o (IF enable_document_cache THEN <<CachePoint>> ELSE << >>)
     ELSE << >>)
    \o
    (IF "text" \in DOMAIN msg THEN <<[text |-> msg["text"]]>> ELSE << >>)

\* variant: a marker is also placed after an image while documents are cached
Content_MarkerAfterImage(msg) ==
    (IF "image" \in DOMAIN msg
     THEN <<[image |-> [format |-> msg["image"].format,
                        source |-> [bytes |-> msg["image"].data]]]>>
          \o (IF enable_document_cache THEN <<CachePoint>> ELSE << >>)
     ELSE << >>)
    \o
    (IF "document" \in DOMAIN msg
     THEN <<[document |-> [format |-> msg["document"].format,
                           name |-> msg["document"].name,
                           source |-> [bytes |-> msg["document"].content]]]>>
          \o (IF Get(msg["document"], "cached", FALSE) THEN <<CachePoint>> ELSE << >>)
     ELSE << >>)
    \o
    (IF "text" \in DOMAIN msg THEN <<[text |-> msg["text"]]>> ELSE << >>)

\* variant: the text block is emitted before the attachment blocks
Content_TextFirst(msg) ==
    (IF "text" \in DOMAIN msg THEN <<[text |-> msg["text"]]>> ELSE << >>)
    \o
    (IF "image" \in DOMAIN msg
     THEN <<[image |-> [format |-> msg["image"].format,
                        source |-> [bytes |-> msg["image"].data]]]>>
     ELSE << >>)
    \o
    (IF "document" \in DOMAIN msg
     THEN <<[document |-> [format |-> msg["document"].format,
                           name |-> msg["document"].name,
                           source |-> [bytes |-> msg["document"].content]]]>>
          \o (IF Get(msg["document"], "cached", FALSE) THEN <<CachePoint>> ELSE << >>)
     ELSE << >>)

\* the content list built for one stored message
Content(msg) ==
    (IF "image" \in DOMAIN msg
     THEN <<[image |-> [format |-> msg["image"].format,
                        source |-> [bytes |-> msg["image"].data]]]>>
     ELSE << >>)
    \o
    (IF "document" \in DOMAIN msg
     THEN <<[document |-> [format |-> msg["document"].format,
                           name |-> msg["document"].name,
                           source |-> [bytes |-> msg["document"].content]]]>>
          \o (IF Get(msg["document"], "cached", FALSE) THEN <<CachePoint>> ELSE << >>)
     ELSE << >>)
    \o
    (IF "text" \in DOMAIN msg THEN <<[text |-> msg["text"]]>> ELSE << >>)

\* api_messages
ApiMessages(msgs) ==
    [i \in 1..Len(msgs) |-> [role |-> msgs[i]["role"], content |-> Content(msgs[i])]]

\* system_config: PyNone, or the list of system blocks
SystemConfig(prompt, system_cache) ==
    IF Strip(prompt) # << >>
    THEN [list |-> <<[text |-> prompt]>> \o (IF system_cache THEN <<CachePoint>> ELSE << >>)]
    ELSE PyNone

\* the keyword arguments of bedrock_client.converse_stream
ConverseStreamArgs(msgs, prompt, system_cache) ==
    [modelId |-> model_id,
     messages |-> ApiMessages(msgs),
     system |-> SystemConfig(prompt, system_cache),
     inferenceConfig |-> [maxTokens |-> max_tokens, temperature |-> temperature]]

(* -------------------------- telemetry captions ------------------------- *)
\* A caption is a sequence of pieces (labels, digits, separators) read left to right.
\* "U+1F4CA", "U+1F4BE" and "U+23F1" stand for the chart, disk and stopwatch emoji.
Digit(d) == <<"0", "1", "2", "3", "4", "5", "6", "7", "8", "9">>[d + 1]

RECURSIVE Decimal(_)
Decimal(n) == IF n < 10 THEN <<Digit(n)>> ELSE Decimal(n \div 10) \o <<Digit(n % 10)>>

\* format(n, ','): decimal digits with a comma between groups of three
RECURSIVE Thousands(_)
Thousands(n) ==
    IF n < 1000 THEN Decimal(n)
    ELSE Thousands(n \div 1000) \o <<",">>
         \o <<Digit((n % 1000) \div 100), Digit((n % 100) \div 10), Digit(n % 10)>>

\* the segments appended for a usage dict
UsageParts(usage) ==
    LET input_tok == Get(usage, "inputTokens", 0)
        output_tok == Get(usage, "outputTokens", 0)
        cache_read == Get(usage, "cacheReadInputTokens", 0)
        cache_write == Get(usage, "cacheWriteInputTokens", 0)
    IN  <<(<<"Input: ">> \o Thousands(input_tok) \o <<" | Output: ">> \o Thousands(output_tok))>>
        \o (IF cache_read > 0
            THEN <<(<<"U+1F4BE", " Cache Read: ">> \o Thousands(cache_read))>> ELSE << >>)
        \o (IF cache_write > 0
            THEN <<(<<"U+1F4BE", " Cache Write: ">> \o Thousands(cache_write))>> ELSE << >>)

\* the segment appended for a metrics dict
MetricsParts(metrics) ==
    LET latency == Get(metrics, "latencyMs", 0)
    IN  IF latency > 0 THEN <<(<<"U+23F1", " ">> \o Thousands(latency) \o <<"ms">>)>> ELSE << >>

\* meta_parts of the history loop: keyed on the presence of the field
HistoryMetaParts(md) ==
    (IF "usage" \in DOMAIN md THEN UsageParts(md["usage"]) ELSE << >>)
    \o (IF "metrics" \in DOMAIN md THEN MetricsParts(md["metrics"]) ELSE << >>)

\* meta_parts after the stream: keyed on the truthiness of metadata.get(field)
LiveMetaParts(md) ==
    (IF "usage" \in DOMAIN md /\ DOMAIN md["usage"] # {} THEN UsageParts(md["usage"]) ELSE << >>)
    \o (IF "metrics" \in DOMAIN md /\ DOMAIN md["metrics"] # {}
        THEN MetricsParts(md["metrics"]) ELSE << >>)

\* ' | '.join(parts)
RECURSIVE Join(_)
Join(parts) ==
    IF Len(parts) = 0 THEN << >>
    ELSE IF Len(parts) = 1 THEN parts[1]
    ELSE parts[1] \o <<" | ">> \o Join(Tail(parts))

\* nothing is drawn: st.caption is not called
NoCaption == << >>

\* if meta_parts: caption(f"{chart} {' | '.join(meta_parts)}")
Caption(meta_parts) ==
    IF meta_parts # << >> THEN <<"U+1F4CA", " ">> \o Join(meta_parts) ELSE NoCaption

\* what a redraw of the history shows under stored message msg
HistoryCaption(msg) ==
    IF "metadata" \in DOMAIN msg THEN Caption(HistoryMetaParts(msg["metadata"])) ELSE NoCaption

(* ------------------------- provider stream events ---------------------- *)
Usage5 == [inputTokens |-> 5, outputTokens |-> 2]
UsageZero == [inputTokens |-> 0, outputTokens |-> 0,
              cacheReadInputTokens |-> 0, cacheWriteInputTokens |-> 0]
MetricsLatency == [latencyMs |-> 1200]
MetricsZero == [latencyMs |-> 0]

StreamEvents ==
    { [contentBlockDelta |-> [delta |-> [text |-> <<"H", "e", "l">>]]],
      [contentBlockDelta |-> [delta |-> [text |-> <<"l", "o">>]]],
      [contentBlockDelta |-> [delta |-> [toolUse |-> [input |-> << >>]]]],
      [messageStop |-> [stopReason |-> "end_turn"]],
      [metadata |-> [usage |-> Usage5]],
      [metadata |-> [metrics |-> MetricsLatency]],
      [metadata |-> [usage |-> UsageZero, metrics |-> MetricsZero]] }

\* the live cursor, U+258C
Cursor == <<"U+258C">>

InitialMetadata == [usage |-> EmptyDict, metrics |-> EmptyDict]

\* variant: the chunk is put in front of the buffer
ResponseAfter_Prepends(response, event) ==
    IF "contentBlockDelta" \in DOMAIN event
       /\ "text" \in DOMAIN event["contentBlockDelta"]["delta"]
    THEN event["contentBlockDelta"]["delta"]["text"] \o response
    ELSE response

\* full_response after one pass of the loop body
ResponseAfter(response, event) ==
    IF "contentBlockDelta" \in DOMAIN event
       /\ "text" \in DOMAIN event["contentBlockDelta"]["delta"]
    THEN response \o event["contentBlockDelta"]["delta"]["text"]
    ELSE response

\* variant: a metadata event replaces the whole record
MetadataAfter_ReplacesRecord(md, event) ==
    IF "contentBlockDelta" \in DOMAIN event \/ "messageStop" \in DOMAIN event
       \/ "metadata" \notin DOMAIN event
    THEN md
    ELSE LET event_metadata == event["metadata"]
         IN  [usage |-> Get(event_metadata, "usage", EmptyDict),
              metrics |-> Get(event_metadata, "metrics", EmptyDict)]

\* metadata after one pass of the loop body
MetadataAfter(md, event) ==
    IF "contentBlockDelta" \in DOMAIN event \/ "messageStop" \in DOMAIN event
       \/ "metadata" \notin DOMAIN event
    THEN md
    ELSE LET event_metadata == event["metadata"]
             withUsage == IF "usage" \in DOMAIN event_metadata
                          THEN Put(md, "usage", event_metadata["usage"]) ELSE md
         IN  IF "metrics" \in DOMAIN event_metadata
             THEN Put(withUsage, "metrics", event_metadata["metrics"]) ELSE withUsage

\* the message placeholder after one pass of the loop body
PlaceholderAfter(shown, response, event) ==
    IF "contentBlockDelta" \in DOMAIN event
       /\ "text" \in DOMAIN event["contentBlockDelta"]["delta"]
    THEN ResponseAfter(response, event) \o Cursor
    ELSE shown

\* the assistant turn appended after the stream
AssistantMessage(response, md) == [role |-> "assistant", text |-> response, metadata |-> md]

(* ------------------------------ operations ----------------------------- *)
\* a script run starts: the handler's locals and placeholders do not exist yet
FreshRun ==
    /\ full_response' = << >>
    /\ metadata' = InitialMetadata
    /\ request' = PyNone
    /\ events' = << >>
    /\ message_placeholder' = << >>
    /\ token_placeholder' = NoCaption
    /\ error' = "none"

\* the script run is over: the handler's locals are gone, the page stays as drawn
ScriptEnds ==
    /\ full_response' = << >>
    /\ metadata' = InitialMetadata
    /\ pc' = "idle"

\* the page after its first script run
ConvInit ==
    /\ messages = << >>
    /\ enable_system_cache = FALSE
    /\ enable_document_cache = FALSE
    /\ system_prompt = DefaultSystemPrompt
    /\ uploaded_file = PyNone
    /\ pc = "idle"
    /\ full_response = << >>
    /\ metadata = InitialMetadata
    /\ request = PyNone
    /\ events = << >>
    /\ message_placeholder = << >>
    /\ token_placeholder = NoCaption
    /\ error = "none"
    /\ document_cache_at_submit = << >>
    /\ store_before = << >>
    /\ clear_clicked = FALSE
    /\ cleared_turns = 0

\* the chat page after its first script run
ChatInit ==
    /\ chat_messages = << >>
    /\ generated_images = << >>
    /\ chat_pc = "idle"
    /\ images_before = 0
    /\ image_index = 0
    /\ response_text = ""
    /\ tool_result = "none"
    /\ chat_cleared = FALSE

Init ==
    /\ ConvInit
    /\ san_pc = "off"
    /\ san_in = << >>
    /\ san_out = << >>
    /\ ChatInit

ToggleSystemCache ==
    /\ pc = "idle"
    /\ Len(messages) < MaxTurns
    /\ enable_system_cache' = ~enable_system_cache
    /\ FreshRun
    /\ store_before' = messages
    /\ clear_clicked' = FALSE
    /\ cleared_turns' = 0
    /\ UNCHANGED <<messages, enable_document_cache, system_prompt, uploaded_file, pc,
                   document_cache_at_submit, sanVars, chatVars>>

ToggleDocumentCache ==
    /\ pc = "idle"
    /\ Len(messages) < MaxTurns
    /\ enable_document_cache' = ~enable_document_cache
    /\ FreshRun
    /\ store_before' = messages
    /\ clear_clicked' = FALSE
    /\ cleared_turns' = 0
    /\ UNCHANGED <<messages, enable_system_cache, system_prompt, uploaded_file, pc,
                   document_cache_at_submit, sanVars, chatVars>>

EditSystemPrompt(text) ==
    /\ pc = "idle"
    /\ Len(messages) < MaxTurns
    /\ text # system_prompt
    /\ system_prompt' = text
    /\ FreshRun
    /\ store_before' = messages
    /\ clear_clicked' = FALSE
    /\ cleared_turns' = 0
    /\ UNCHANGED <<messages, enable_system_cache, enable_document_cache, uploaded_file, pc,
                   document_cache_at_submit, sanVars, chatVars>>

\* the file uploader: a file is chosen, replaced or removed
UploadFile(file) ==
    /\ pc = "idle"
    /\ Len(messages) < MaxTurns
    /\ file # uploaded_file
    /\ uploaded_file' = file
    /\ FreshRun
    /\ store_before' = messages
    /\ clear_clicked' = FALSE
    /\ cleared_turns' = 0
    /\ UNCHANGED <<messages, enable_system_cache, enable_document_cache, system_prompt, pc,
                   document_cache_at_submit, sanVars, chatVars>>

ClearConversation ==
    /\ pc = "idle"
    /\ messages' = << >>
    /\ document_cache_at_submit' = << >>
    /\ FreshRun
    /\ store_before' = << >>
    /\ clear_clicked' = TRUE
    /\ cleared_turns' = Len(messages)
    /\ UNCHANGED <<enable_system_cache, enable_document_cache, system_prompt, uploaded_file,
                   pc, sanVars, chatVars>>

\* chat input up to the try statement: the user turn is stored
Submit(prompt) ==
    /\ pc = "idle"
    /\ Len(messages) < MaxTurns
    /\ prompt # << >>
    /\ LET file_data == FileData(uploaded_file, enable_document_cache)
       IN  /\ messages' = Append(messages, UserMessage(prompt, file_data))
           /\ document_cache_at_submit' =
                 Append(document_cache_at_submit,
                        IF file_data # PyNone /\ file_data.type = "document"
                        THEN (IF enable_document_cache THEN "on" ELSE "off")
                        ELSE "n/a")
    /\ FreshRun
    /\ store_before' = messages
    /\ clear_clicked' = FALSE
    /\ cleared_turns' = 0
    /\ pc' = "try"
    /\ UNCHANGED <<enable_system_cache, enable_document_cache, system_prompt, uploaded_file,
                   sanVars, chatVars>>

\* converse_stream raises: ClientError or another exception
CallRaises(kind) ==
    /\ pc = "try"
    /\ request' = ConverseStreamArgs(messages, system_prompt, enable_system_cache)
    /\ error' = kind
    /\ ScriptEnds
    /\ UNCHANGED <<messages, enable_system_cache, enable_document_cache, system_prompt,
                   uploaded_file, events, message_placeholder,
                   token_placeholder, document_cache_at_submit, store_before,
                   clear_clicked, cleared_turns, sanVars, chatVars>>

\* converse_stream returns a response that holds a stream
CallReturnsStream ==
    /\ pc = "try"
    /\ request' = ConverseStreamArgs(messages, system_prompt, enable_system_cache)
    /\ pc' = "stream"
    /\ UNCHANGED <<messages, enable_system_cache, enable_document_cache, system_prompt,
                   uploaded_file, full_response, metadata, events, message_placeholder,
                   token_placeholder, error, document_cache_at_submit, store_before,
                   clear_clicked, cleared_turns, sanVars, chatVars>>

\* one pass of the loop body over the next event of the stream
StreamEvent(event) ==
    /\ pc = "stream"
    /\ 2 * Len(messages) + Len(events) < MaxWork
    /\ full_response' = ResponseAfter(full_response, event)
    /\ message_placeholder' = PlaceholderAfter(message_placeholder, full_response, event)
    /\ metadata' = MetadataAfter(metadata, event)
    /\ events' = Append(events, event)
    /\ UNCHANGED <<messages, enable_system_cache, enable_document_cache, system_prompt,
                   uploaded_file, pc, request, token_placeholder, error,
                   document_cache_at_submit, store_before,
                   clear_clicked, cleared_turns, sanVars, chatVars>>

\* variant: the except branch records what was streamed so far as an assistant turn
StreamRaises_RecordsPartial(kind) ==
    /\ pc = "stream"
    /\ error' = kind
    /\ events' = << >>
    /\ messages' = Append(messages, AssistantMessage(full_response, metadata))
    /\ document_cache_at_submit' = Append(document_cache_at_submit, "n/a")
    /\ ScriptEnds
    /\ UNCHANGED <<enable_system_cache, enable_document_cache, system_prompt,
                   uploaded_file, request, message_placeholder, token_placeholder,
                   store_before, clear_clicked, cleared_turns, sanVars, chatVars>>

\* iterating the stream raises
StreamRaises(kind) ==
    /\ pc = "stream"
    /\ error' = kind
    /\ events' = << >>
    /\ ScriptEnds
    /\ UNCHANGED <<messages, enable_system_cache, enable_document_cache, system_prompt,
                   uploaded_file, request, message_placeholder, token_placeholder,
                   document_cache_at_submit, store_before,
                   clear_clicked, cleared_turns, sanVars, chatVars>>

\* variant: the assistant turn is written over the last stored turn
Finalize_OverwritesLast ==
    /\ message_placeholder' = full_response
    /\ token_placeholder' = Caption(LiveMetaParts(metadata))
    /\ messages' = [messages EXCEPT ![Len(messages)] = AssistantMessage(full_response, metadata)]
    /\ document_cache_at_submit' = [document_cache_at_submit EXCEPT ![Len(messages)] = "n/a"]
    /\ ScriptEnds

\* after the loop: final message, caption, assistant turn
Finalize ==
    /\ message_placeholder' = full_response
    /\ token_placeholder' = Caption(LiveMetaParts(metadata))
    /\ messages' = Append(messages, AssistantMessage(full_response, metadata))
    /\ document_cache_at_submit' = Append(document_cache_at_submit, "n/a")
    /\ ScriptEnds

\* the stream is exhausted
StreamExhausted ==
    /\ pc = "stream"
    /\ Finalize
    /\ UNCHANGED <<enable_system_cache, enable_document_cache, system_prompt, uploaded_file,
                   request, events, error, store_before,
                   clear_clicked, cleared_turns, sanVars, chatVars>>

\* converse_stream returns a response without a stream: the loop is skipped
CallReturnsNoStream ==
    /\ pc = "try"
    /\ request' = ConverseStreamArgs(messages, system_prompt, enable_system_cache)
    /\ Finalize
    /\ UNCHANGED <<enable_system_cache, enable_document_cache, system_prompt, uploaded_file,
                   events, error, store_before,
                   clear_clicked, cleared_turns, sanVars, chatVars>>

Errors == {"ClientError", "Exception"}

Next ==
    \/ ToggleSystemCache
    \/ ToggleDocumentCache
    \/ \E text \in SystemPrompts : EditSystemPrompt(text)
    \/ \E file \in Files \cup {PyNone} : UploadFile(file)
    \/ ClearConversation
    \/ \E prompt \in Prompts : Submit(prompt)
    \/ \E kind \in Errors : CallRaises(kind)
    \/ CallReturnsStream
    \/ CallReturnsNoStream
    \/ \E event \in StreamEvents : StreamEvent(event)
    \/ \E kind \in Errors : StreamRaises(kind)
    \/ StreamExhausted

Spec == Init /\ [][Next]_vars

(* ---------------- sanitize_filename on arbitrary filenames ------------- *)
Filenames == StringsUpTo(NameAlphabet, MaxNameLen)

SanInit ==
    /\ ConvInit
    /\ ChatInit
    /\ san_pc = "in"
    /\ san_in \in Filenames
    /\ san_out = << >>

Sanitize ==
    /\ san_pc = "in"
    /\ san_out' = sanitize_filename(san_in)
    /\ san_pc' = "out"
    /\ UNCHANGED <<san_in, convVars, chatVars>>

\* the sanitized name is uploaded again under that name
Resubmit ==
    /\ san_pc = "out"
    /\ san_in' = san_out
    /\ san_pc' = "in"
    /\ UNCHANGED <<san_out, convVars, chatVars>>

SanNext == Sanitize \/ Resubmit

SanSpec == SanInit /\ [][SanNext]_vars

(* ------------------- chat page (views/chat_stream.py) ------------------ *)
MaxChatTurns == 4
MaxImages == 2

ChatPrompts == {"draw"}
ResponseTexts == {"done"}

\* f"Error: {str(e)}"
ErrorMessage == "Error: e"

\* Image.open(BytesIO(image_bytes))
PilImage(image_bytes) == [decoded |-> image_bytes]

\* chat input up to the agent call: the user turn is stored, the image count is read
ChatSubmit(prompt) ==
    /\ chat_pc = "idle"
    /\ Len(chat_messages) < MaxChatTurns
    /\ chat_messages' = Append(chat_messages, [role |-> "user", content |-> prompt])
    /\ images_before' = Len(generated_images)
    /\ image_index' = 0
    /\ response_text' = ""
    /\ tool_result' = "none"
    /\ chat_cleared' = FALSE
    /\ chat_pc' = "agent"
    /\ UNCHANGED <<generated_images, convVars, sanVars>>

\* generate_image, called by the agent, stores the image it got
ToolGeneratesImage ==
    /\ chat_pc = "agent"
    /\ Len(generated_images) < MaxImages
    /\ generated_images' = Append(generated_images, Len(generated_images) + 1)
    /\ tool_result' = "generated"
    /\ UNCHANGED <<chat_messages, chat_pc, images_before, image_index, response_text,
                   chat_cleared, convVars, sanVars>>

\* generate_image returns an error text: a finish reason, or a caught exception
ToolReturnsError ==
    /\ chat_pc = "agent"
    /\ tool_result' = "error"
    /\ UNCHANGED <<chat_messages, generated_images, chat_pc, images_before, image_index,
                   response_text, chat_cleared, convVars, sanVars>>

\* the agent call returns: without new images the text turn is stored
AgentReturns(text) ==
    /\ chat_pc = "agent"
    /\ response_text' = text
    /\ IF Len(generated_images) > images_before
       THEN /\ image_index' = images_before
            /\ chat_pc' = "images"
            /\ UNCHANGED chat_messages
       ELSE /\ chat_messages' = Append(chat_messages, [role |-> "assistant", content |-> text])
            /\ chat_pc' = "idle"
            /\ UNCHANGED image_index
    /\ UNCHANGED <<generated_images, images_before, tool_result, chat_cleared, convVars,
                   sanVars>>

\* one pass of the loop over the new images
RecordImage ==
    /\ chat_pc = "images"
    /\ image_index < Len(generated_images)
    /\ chat_messages' =
          Append(chat_messages,
                 [role |-> "assistant", type |-> "image", text |-> response_text,
                  content |-> PilImage(generated_images[image_index + 1])])
    /\ image_index' = image_index + 1
    /\ chat_pc' = IF image_index + 1 < Len(generated_images) THEN "images" ELSE "idle"
    /\ UNCHANGED <<generated_images, images_before, response_text, tool_result,
                   chat_cleared, convVars, sanVars>>

\* the except branch: the error text is stored as an assistant turn
ChatExcept ==
    /\ chat_messages' = Append(chat_messages, [role |-> "assistant", content |-> ErrorMessage])
    /\ chat_pc' = "idle"
    /\ UNCHANGED <<generated_images, images_before, image_index, response_text, tool_result,
                   chat_cleared, convVars, sanVars>>

\* the agent call raises
AgentRaises ==
    /\ chat_pc = "agent"
    /\ ChatExcept

\* Image.open or st.image raises inside the loop
ImageDisplayRaises ==
    /\ chat_pc = "images"
    /\ ChatExcept

ClearChat ==
    /\ chat_pc = "idle"
    /\ chat_messages' = << >>
    /\ generated_images' = << >>
    /\ chat_cleared' = TRUE
    /\ UNCHANGED <<chat_pc, images_before, image_index, response_text, tool_result,
                   convVars, sanVars>>

ChatNext ==
    \/ \E prompt \in ChatPrompts : ChatSubmit(prompt)
    \/ ToolGeneratesImage
    \/ ToolReturnsError
    \/ \E text \in ResponseTexts : AgentReturns(text)
    \/ RecordImage
    \/ AgentRaises
    \/ ImageDisplayRaises
    \/ ClearChat

ChatSpec == Init /\ [][ChatNext]_vars

(* ------------------------------ properties ----------------------------- *)
Last(seq) == seq[Len(seq)]

\* the run called the provider and left the try block without an exception
Completed == pc = "idle" /\ request # PyNone /\ error = "none"

\* the run ended in one of the except branches
Failed == error # "none"

\* the one key of a content block
BlockKind(block) == CHOOSE k \in DOMAIN block : TRUE

IsMarker(block) == "cachePoint" \in DOMAIN block

MarkerCount(blocks) == Cardinality({k \in 1..Len(blocks) : IsMarker(blocks[k])})

\* C1: a submission whose provider call or stream raises (ClientError or any other
\* exception, before or during the stream) appends no assistant turn: the Store is
\* the Store the run found plus exactly the one new user turn.
C1_FaultLeavesOnlyUserTurn ==
    Failed =>
        \E prompt \in Prompts :
            messages = Append(store_before,
                              UserMessage(prompt, FileData(uploaded_file, enable_document_cache)))

\* a ClientError in the middle of a stream, after text was shown, on a non-empty Store
C1_Witness ==
    /\ error = "ClientError"
    /\ message_placeholder = <<"H", "e", "l">> \o Cursor
    /\ Len(store_before) > 0

MarkerFollowsDocument(content) ==
    \E k \in 1..(Len(content) - 1) :
        "document" \in DOMAIN content[k] /\ IsMarker(content[k + 1])

PerTurnIntent(api) ==
    \A i \in 1..Len(api) :
        "document" \in DOMAIN messages[i] =>
            (MarkerFollowsDocument(api[i].content) <=> document_cache_at_submit[i] = "on")

\* C2: in every request, the document block of stored turn t is followed by a marker
\* iff the document-cache checkbox was on when t was submitted, whatever the checkbox
\* says when the request is built.
C2_CachingIntentPerTurn ==
    /\ PerTurnIntent(ApiMessages(messages))
    /\ request # PyNone => PerTurnIntent(request.messages)

\* a request built with the checkbox off that still carries the marker of an earlier turn
C2_Witness ==
    /\ request # PyNone
    /\ ~enable_document_cache
    /\ \E i, j \in 1..Len(request.messages) :
          /\ i < j
          /\ document_cache_at_submit[i] = "on"
          /\ document_cache_at_submit[j] = "off"
          /\ MarkerFollowsDocument(request.messages[i].content)
          /\ ~MarkerFollowsDocument(request.messages[j].content)

MarkersPlaced(req) ==
    /\ \A i \in 1..Len(req.messages) :
          LET content == req.messages[i].content
          IN  \A k \in 1..Len(content) :
                  IsMarker(content[k]) => k > 1 /\ "document" \in DOMAIN content[k - 1]
    /\ req.system # PyNone =>
          \A k \in 1..Len(req.system.list) :
              IsMarker(req.system.list[k]) => k > 1 /\ "text" \in DOMAIN req.system.list[k - 1]

OneCachedDocumentTurn ==
    /\ Len(messages) = 1
    /\ "document" \in DOMAIN messages[1]
    /\ messages[1]["document"].cached
    /\ ~enable_system_cache

\* C3: in every request payload a marker stands only right after a document block or
\* right after the system text block; one user turn with a cached document and the
\* system cache off gives exactly one marker, after the document, none in the system
\* section.
C3_MarkerPlacement ==
    LET req == ConverseStreamArgs(messages, system_prompt, enable_system_cache)
    IN  /\ MarkersPlaced(req)
        /\ request # PyNone => MarkersPlaced(request)
        /\ OneCachedDocumentTurn =>
              /\ MarkerCount(req.messages[1].content) = 1
              /\ "document" \in DOMAIN req.messages[1].content[1]
              /\ IsMarker(req.messages[1].content[2])
              /\ req.system # PyNone => MarkerCount(req.system.list) = 0

\* the request sent for one user turn with a cached document, system cache off
C3_Witness ==
    /\ OneCachedDocumentTurn
    /\ request # PyNone
    /\ MarkerCount(request.messages[1].content) = 1

\* C4: with an empty system prompt the call has no system field at all, and no system
\* marker, even with the system-cache checkbox on.
C4_NoSystemFieldWhenEmpty ==
    (request # PyNone /\ system_prompt = << >>) =>
        /\ "system" \notin DOMAIN request
        /\ \A i \in 1..Len(request.messages) :
              \A k \in 1..Len(request.messages[i].content) :
                  IsMarker(request.messages[i].content[k]) => k > 1

DeltaText(event) ==
    IF "contentBlockDelta" \in DOMAIN event
       /\ "text" \in DOMAIN event["contentBlockDelta"]["delta"]
    THEN event["contentBlockDelta"]["delta"]["text"]
    ELSE << >>

\* the delta texts of a sequence of events, concatenated in order
RECURSIVE ConcatDeltas(_)
ConcatDeltas(evs) ==
    IF evs = << >> THEN << >> ELSE DeltaText(Head(evs)) \o ConcatDeltas(Tail(evs))

\* C5: after every event the buffer is the in-order concatenation of the delta texts
\* received so far, and the text of the assistant turn stored on exhaustion is the
\* concatenation of all of them; stop and metadata events do not affect it.
C5_BufferIsConcatenation ==
    /\ pc = "stream" =>
          /\ full_response = ConcatDeltas(events)
          /\ message_placeholder \in {<< >>, ConcatDeltas(events) \o Cursor}
    /\ Completed =>
          /\ Last(messages)["text"] = ConcatDeltas(events)
          /\ message_placeholder = ConcatDeltas(events)

\* "Hel", a metadata or stop event, "lo": the stored text is "Hello"
C5_Witness ==
    /\ Completed
    /\ Len(events) = 3
    /\ "contentBlockDelta" \notin DOMAIN events[2]
    /\ Last(messages)["text"] = <<"H", "e", "l", "l", "o">>

\* the value of field in the last metadata event that carried it, {} if none did
RECURSIVE LastCarried(_, _)
LastCarried(evs, field) ==
    IF evs = << >> THEN EmptyDict
    ELSE LET e == Last(evs)
         IN  IF "metadata" \in DOMAIN e /\ field \in DOMAIN e["metadata"]
             THEN e["metadata"][field]
             ELSE LastCarried(SubSeq(evs, 1, Len(evs) - 1), field)

LastWriterWins(md) ==
    /\ DOMAIN md = {"usage", "metrics"}
    /\ md["usage"] = LastCarried(events, "usage")
    /\ md["metrics"] = LastCarried(events, "metrics")

\* C6: the metadata recorded with the assistant turn is last-writer-wins per field:
\* usage and metrics each come from the last metadata event that carried them, and a
\* field no event carried stays empty.
C6_MetadataLastWriterWins ==
    /\ pc = "stream" => LastWriterWins(metadata)
    /\ Completed =>
          /\ "metadata" \in DOMAIN Last(messages)
          /\ LastWriterWins(Last(messages)["metadata"])

\* usage was written twice and metrics once: the later usage and the only metrics are kept
C6_Witness ==
    /\ Completed
    /\ events = <<[metadata |-> [usage |-> UsageZero, metrics |-> MetricsZero]],
                  [metadata |-> [usage |-> Usage5]]>>
    /\ Last(messages)["metadata"]["usage"] = Usage5
    /\ Last(messages)["metadata"]["metrics"] = MetricsZero

\* every value the metadata holds is zero (none present included)
NothingNonZero(md) ==
    \A field \in DOMAIN md : \A key \in DOMAIN md[field] : md[field][key] = 0

\* C7: the telemetry formatter draws no caption when the metadata holds no usage or
\* metrics values or when every value it holds is zero, on the live draw and on every
\* redraw of the history.
C7_NoCaptionWithoutValues ==
    /\ \A i \in 1..Len(messages) :
          ("metadata" \in DOMAIN messages[i] /\ NothingNonZero(messages[i]["metadata"])) =>
              HistoryCaption(messages[i]) = NoCaption
    /\ (Completed /\ NothingNonZero(Last(messages)["metadata"])) =>
          token_placeholder = NoCaption

\* C8: the Store changes only by one turn appended at the end, earlier turns keeping
\* place and content, or by the clear action resetting it to empty.
C8_AppendOrClear ==
    [][ \/ messages' = messages
        \/ /\ Len(messages') = Len(messages) + 1
           /\ SubSeq(messages', 1, Len(messages)) = messages
        \/ /\ clear_clicked'
           /\ messages' = << >> ]_vars

\* three turns were appended and then cleared
C8_Witness ==
    /\ clear_clicked
    /\ cleared_turns >= 3
    /\ messages = << >>

Rank(block) ==
    CASE "image" \in DOMAIN block -> 1
      [] "document" \in DOMAIN block -> 2
      [] "cachePoint" \in DOMAIN block -> 3
      [] "text" \in DOMAIN block -> 4
      [] OTHER -> 0

Projection(api, msgs) ==
    /\ Len(api) = Len(msgs)
    /\ \A i \in 1..Len(msgs) :
          LET content == api[i].content
          IN  /\ DOMAIN api[i] = {"role", "content"}
              /\ api[i].role = msgs[i]["role"]
              /\ \A k \in 1..Len(content) : Rank(content[k]) > 0
              /\ \A j, k \in 1..Len(content) : j < k => Rank(content[j]) < Rank(content[k])
              /\ ("image" \in DOMAIN msgs[i]) <=> (\E k \in 1..Len(content) : Rank(content[k]) = 1)
              /\ ("document" \in DOMAIN msgs[i]) <=>
                    (\E k \in 1..Len(content) : Rank(content[k]) = 2)
              /\ content # << >>
              /\ Rank(Last(content)) = 4
              /\ Last(content).text = msgs[i]["text"]

\* C9: the request's message list has one role-tagged group per stored turn, in Store
\* order; in each group the blocks are image, document (with its marker when cached),
\* text, the text block last.
C9_OrderPreservingProjection ==
    /\ Projection(ApiMessages(messages), messages)
    /\ request # PyNone =>
          /\ Len(request.messages) <= Len(messages)
          /\ Projection(request.messages, SubSeq(messages, 1, Len(request.messages)))

\* a request over three turns, one of them document, marker, text
C9_Witness ==
    /\ request # PyNone
    /\ Len(request.messages) = 3
    /\ request.messages[2].role = "assistant"
    /\ \E i \in 1..3 : Len(request.messages[i].content) = 3

\* C10: sanitize_filename returns only ASCII letters, digits, whitespace, hyphens and
\* ()[], no two consecutive whitespace characters, no leading or trailing whitespace,
\* never the empty string, and sanitizing the result again changes nothing.
C10_SanitizedName ==
    san_pc = "out" =>
        /\ \A i \in 1..Len(san_out) : san_out[i] \in AsciiAlnum \cup Whitespace \cup Punct
        /\ \A i \in 1..(Len(san_out) - 1) :
              ~(san_out[i] \in Whitespace /\ san_out[i + 1] \in Whitespace)
        /\ san_out # << >>
        /\ san_out[1] \notin Whitespace
        /\ san_out[Len(san_out)] \notin Whitespace
        /\ sanitize_filename(san_out) = san_out

\* a name of disallowed characters and whitespace only: the placeholder is returned
C10_Witness ==
    /\ san_pc = "out"
    /\ san_in # << >>
    /\ \A i \in 1..Len(san_in) : san_in[i] \notin AsciiAlnum \cup Punct
    /\ \E i \in 1..Len(san_in) : san_in[i] \notin Whitespace
    /\ san_out = Placeholder

\* C11: every stored turn has a non-empty text or an attachment, the assistant turn
\* appended after a stream that delivered no text delta included.
C11_TurnHasTextOrAttachment ==
    \A i \in 1..Len(messages) :
        \/ "text" \in DOMAIN messages[i] /\ messages[i]["text"] # << >>
        \/ "image" \in DOMAIN messages[i]
        \/ "document" \in DOMAIN messages[i]

\* C12: the caption drawn when the stream completes, from the pending metadata, is
\* the caption every later redraw draws for that turn from the stored metadata.
C12_LiveCaptionIsHistoryCaption ==
    Completed => token_placeholder = HistoryCaption(Last(messages))

\* the image-typed assistant turns of the chat Store, in Store order
ImageTurns ==
    SelectSeq(chat_messages,
              LAMBDA m : m["role"] = "assistant" /\ Get(m, "type", "") = "image")

\* C13: on the chat page, after every completed submission, returned or raised, the
\* image-typed assistant turns are the generated images, one turn per image in
\* generation order; Clear Chat empties the Store and the generated-image list.
C13_ImageTurnsAreGeneratedImages ==
    /\ chat_pc = "idle" =>
          /\ Len(ImageTurns) = Len(generated_images)
          /\ \A k \in 1..Len(ImageTurns) :
                ImageTurns[k]["content"] = PilImage(generated_images[k])
    /\ chat_cleared => chat_messages = << >> /\ generated_images = << >>

====
